---- MODULE Spec2Model ----
(***************************************************************************)
(* Model of account_asset_management/models/account_move.py: the guards    *)
(* that AccountMove and AccountMoveLine put on unlink / write / post /     *)
(* button_draft / _reverse_move_vals / create, and the per-unit expansion  *)
(* of a line (_expand_asset_line).                                         *)
(*                                                                         *)
(* Every operation runs in one request transaction: an operator below      *)
(* threads an environment E (the tables, the id sequences and E.err, the   *)
(* message of the UserError raised so far, "" when none); the action that  *)
(* wraps it commits E when E.err = "" and leaves the tables as they were   *)
(* otherwise (rollback).  Empty many2one values and False are 0.           *)
(***************************************************************************)
EXTENDS Integers, Sequences, FiniteSets, TLC

VARIABLES moves, lines, assets, deprs, line_seq, asset_seq, last

vars == <<moves, lines, assets, deprs, line_seq, asset_seq, last>>

----------------------------------------------------------------------------
(* Bounds of the model *)

\* entries
MaxMoves == 2

\* line ids handed out in the full state machine
MaxLines == 2

\* assets created by post
MaxAssets == 2

\* largest quantity of a line, in units
MaxQty == 3

----------------------------------------------------------------------------
(* Program constants and fixed reference data *)

FIELDS_AFFECTS_ASSET_MOVE == {"journal_id", "date"}

FIELDS_AFFECTS_ASSET_MOVE_LINE ==
    {"credit", "debit", "account_id", "journal_id", "date",
     "asset_profile_id", "asset_id"}

\* document types for which is_sale_document() answers True
SaleTypes == {"out_invoice", "out_refund"}

\* a guard that forgets the removal lines
UnlinkDeprTypesOnlyDepreciate == {"depreciate"}

\* depreciation line types the unlink guard searches for
UnlinkDeprTypes == {"depreciate", "remove"}

\* a guard that searches for the types unlink() searches for
WriteDeprTypesAsUnlink == {"depreciate", "remove"}

\* depreciation line types the write guard searches for
WriteDeprTypes == {"depreciate"}

DeprTypes == {"create", "depreciate", "remove"}

MoveIds == 1 .. MaxMoves

\* the depreciation lines of the asset module that exist
DeprIds == {1, 2}

\* Quantities are floats with one binary digit: the integer q stands for
\* q / QtyScale, so QtyScale is 1.0 and 3 is 1.5.
QtyScale == 2

\* the float 1.0 the expansion compares with and the 1 it writes
QtyOne == QtyScale

\* int(qty): truncation of the float to an integer
IntOf(q) == q \div QtyScale

\* "{} {}".format(name, i)
Format(name, i) == name \o " " \o ToString(i)

\* asset profiles: 1 tracks every unit separately, 2 does not
Profiles == {1, 2}

AssetProductItem(p) == p = 1

----------------------------------------------------------------------------
(* Helpers of the record store *)

Min(S) == CHOOSE x \in S : \A y \in S : x <= y

RECURSIVE SortedSeq(_)
\* a record set is iterated in id order
SortedSeq(S) == IF S = {} THEN << >>
                ELSE <<Min(S)>> \o SortedSeq(S \ {Min(S)})

\* vals.get(key): the value, 0 (None / False) when the key is absent
Get(vals, key) == IF key \in DOMAIN vals THEN vals[key] ELSE 0

\* the record `rec` after super().write(vals): the keys of vals replaced
Apply(rec, vals) ==
    [f \in DOMAIN rec |-> IF f \in DOMAIN vals THEN vals[f] ELSE rec[f]]

\* a new line's columns before vals are applied
LineDefaults ==
    [move_id |-> 0, name |-> "", quantity |-> QtyOne, asset_profile_id |-> 0,
     asset_id |-> 0, debit |-> 0, credit |-> 0, account_id |-> 0,
     journal_id |-> 0, date |-> 0]

\* move.is_sale_document(); an empty record set (browse(None)) is not one
IsSaleDocument(E, m) == m \in DOMAIN E.moves /\ E.moves[m].type \in SaleTypes

\* move.line_ids
LineIdsOf(E, m) == {l \in DOMAIN E.lines : E.lines[l].move_id = m}

Raise(E, msg) == [E EXCEPT !.err = msg]

ErrMoveUnlink == "You are not allowed to remove an accounting entry linked to an asset."

ErrMoveWrite == "You cannot change an accounting entry linked to an asset depreciation line."

ErrLineLinked == "You cannot change an accounting item linked to an asset depreciation line."

ErrLineLink == "You are not allowed to link an accounting entry to an asset."

----------------------------------------------------------------------------
(* AccountMoveLine: create, write, _expand_asset_line *)

\* the check at the head of AccountMoveLine.create: "" or the error raised
LineCreateCheck(E, vals_list, ctx) ==
    IF \E i \in 1 .. Len(vals_list) :
          /\ ~IsSaleDocument(E, Get(vals_list[i], "move_id"))
          /\ Get(vals_list[i], "asset_id") # 0
          /\ "allow_asset" \notin ctx
    THEN ErrLineLink
    ELSE ""

\* a first check that lets any change through under allow_asset_removal
LineWriteLinkedCheckAnyKeys(E, ids, vals, ctx) ==
    /\ DOMAIN vals \cap FIELDS_AFFECTS_ASSET_MOVE_LINE # {}
    /\ "allow_asset_removal" \notin ctx
    /\ \E l \in ids : /\ ~IsSaleDocument(E, E.lines[l].move_id)
                      /\ E.lines[l].asset_id # 0

\* the first check of AccountMoveLine.write: a protected field of a linked
\* non-sale line is being changed outside the permitted removal
LineWriteLinkedCheck(E, ids, vals, ctx) ==
    /\ DOMAIN vals \cap FIELDS_AFFECTS_ASSET_MOVE_LINE # {}
    /\ ~("allow_asset_removal" \in ctx /\ DOMAIN vals = {"asset_id"})
    /\ \E l \in ids : /\ ~IsSaleDocument(E, E.lines[l].move_id)
                      /\ E.lines[l].asset_id # 0

\* a second check that takes allow_asset_removal for a permission to link
LineWriteLinkCheckEitherFlag(E, ids, vals, ctx) ==
    /\ \E l \in ids : ~IsSaleDocument(E, E.lines[l].move_id)
    /\ Get(vals, "asset_id") # 0
    /\ "allow_asset" \notin ctx
    /\ "allow_asset_removal" \notin ctx

\* the second check of AccountMoveLine.write: linking without allow_asset
LineWriteLinkCheck(E, ids, vals, ctx) ==
    /\ \E l \in ids : ~IsSaleDocument(E, E.lines[l].move_id)
    /\ Get(vals, "asset_id") # 0
    /\ "allow_asset" \notin ctx

\* super().write(vals) of the line model
SuperLineWrite(E, ids, vals) ==
    [E EXCEPT !.lines = [l \in DOMAIN E.lines |->
                            IF l \in ids THEN Apply(E.lines[l], vals)
                            ELSE E.lines[l]]]

\* super().create(vals_list) of the line model: ids come from the sequence
SuperLineCreate(E, vals_list) ==
    LET n == Len(vals_list)
        new == (E.line_seq + 1) .. (E.line_seq + n)
    IN [E EXCEPT !.lines = [l \in DOMAIN E.lines \cup new |->
                               IF l \in new
                               THEN Apply(LineDefaults, vals_list[l - E.line_seq])
                               ELSE E.lines[l]],
                 !.line_seq = E.line_seq + n]

RECURSIVE LineWriteOp(_, _, _, _)
RECURSIVE LineCreateOp(_, _, _)
RECURSIVE ExpandAssetLineOp(_, _, _)
RECURSIVE ExpandEach(_, _, _)
RECURSIVE CopyLoop(_, _, _, _, _, _)

\* for record in records: record._expand_asset_line()
ExpandEach(E, seq, ctx) ==
    IF seq = << >> \/ E.err # "" THEN E
    ELSE ExpandEach(ExpandAssetLineOp(E, Head(seq), ctx), Tail(seq), ctx)

\* AccountMoveLine.create(vals_list)
LineCreateOp(E, vals_list, ctx) ==
    IF E.err # "" THEN E
    ELSE IF LineCreateCheck(E, vals_list, ctx) # ""
    THEN Raise(E, LineCreateCheck(E, vals_list, ctx))
    ELSE LET E1 == SuperLineCreate(E, vals_list)
         IN ExpandEach(E1, [i \in 1 .. Len(vals_list) |-> E.line_seq + i], ctx)

\* AccountMoveLine.write(vals) on the record set ids
LineWriteOp(E, ids, vals, ctx) ==
    IF E.err # "" THEN E
    ELSE IF LineWriteLinkedCheck(E, ids, vals, ctx) THEN Raise(E, ErrLineLinked)
    ELSE IF LineWriteLinkCheck(E, ids, vals, ctx) THEN Raise(E, ErrLineLink)
    ELSE LET E1 == SuperLineWrite(E, ids, vals)
         IN IF "quantity" \in DOMAIN vals \/ "asset_profile_id" \in DOMAIN vals
            THEN ExpandEach(E1, SortedSeq(ids), ctx)
            ELSE E1

\* aml.copy(default): copy_data() of every column, default on top, create()
LineCopyOp(E, id, default, ctx) ==
    LineCreateOp(E, <<Apply(E.lines[id], default)>>, ctx)

\* a loop that names the copies from index 1
CopyLoopFromOne(E, id, name, i, n, ctx) ==
    IF i >= n \/ E.err # "" THEN E
    ELSE CopyLoop(LineCopyOp(E, id, [name |-> Format(name, i)], ctx),
                  id, name, i + 1, n, ctx)

\* for i in range(1, int(qty)): aml.copy({"name": "{} {}".format(name, i + 1)})
CopyLoop(E, id, name, i, n, ctx) ==
    IF i >= n \/ E.err # "" THEN E
    ELSE CopyLoop(LineCopyOp(E, id, [name |-> Format(name, i + 1)], ctx),
                  id, name, i + 1, n, ctx)

\* a condition that forgets the asset_product_item flag of the profile
ExpandAppliesAnyProfile(line) ==
    /\ line.asset_profile_id # 0
    /\ line.quantity > QtyOne

\* the condition under which _expand_asset_line does anything
ExpandApplies(line) ==
    /\ line.asset_profile_id # 0
    /\ line.quantity > QtyOne
    /\ AssetProductItem(line.asset_profile_id)

\* an expansion that names a line of one unit "N 1" again
ExpandAssetLineOpRenamesUnits(E, id, ctx) ==
    IF E.err # "" THEN E
    ELSE IF ExpandApplies(E.lines[id])
    THEN LET qty  == E.lines[id].quantity
             name == E.lines[id].name
             E1   == LineWriteOp(E, {id},
                                 [quantity |-> QtyOne, name |-> Format(name, 1)],
                                 ctx)
         IN CopyLoop(E1, id, name, 1, IntOf(qty), ctx)
    ELSE IF /\ E.lines[id].asset_profile_id # 0
            /\ AssetProductItem(E.lines[id].asset_profile_id)
    THEN SuperLineWrite(E, {id}, [name |-> Format(E.lines[id].name, 1)])
    ELSE E

\* AccountMoveLine._expand_asset_line() on the single line id.  The context
\* key check_move_validity=False only switches off the balance validation of
\* the accounting core, and the core's recomputations of amounts and totals
\* (_onchange_price_subtotal, _onchange_invoice_line_ids) are not part of
\* this module: neither is modelled.
ExpandAssetLineOp(E, id, ctx) ==
    IF E.err # "" THEN E
    ELSE IF ExpandApplies(E.lines[id])
    THEN LET qty  == E.lines[id].quantity
             name == E.lines[id].name
             E1   == LineWriteOp(E, {id},
                                 [quantity |-> QtyOne, name |-> Format(name, 1)],
                                 ctx)
         IN CopyLoop(E1, id, name, 1, IntOf(qty), ctx)
    ELSE E

----------------------------------------------------------------------------
(* account.asset: the two operations of the asset model the guards call *)

\* self.env["account.asset"].create(vals): a new row with the next id
AssetCreateOp(E, vals) ==
    [E EXCEPT !.assets = [a \in DOMAIN E.assets \cup {E.asset_seq + 1} |->
                             IF a = E.asset_seq + 1 THEN vals ELSE E.assets[a]],
              !.asset_seq = E.asset_seq + 1]

\* an unlink of assets that deletes the rows and leaves the lines alone
AssetUnlinkOpRowsOnly(E, aids) ==
    IF E.err # "" THEN E
    ELSE [E EXCEPT !.assets = [a \in DOMAIN E.assets \ aids |-> E.assets[a]]]

\* assets.unlink(): the lines of the assets give up their asset_id through
\* the permitted removal (a write of asset_id alone under
\* allow_asset_removal), then the rows are deleted; asset_id is
\* ondelete="restrict", so a row still referenced could not be deleted
AssetUnlinkOp(E, aids) ==
    IF E.err # "" THEN E
    ELSE LET amls == {l \in DOMAIN E.lines : E.lines[l].asset_id \in aids}
             E1   == IF amls = {} THEN E
                     ELSE LineWriteOp(E, amls, [asset_id |-> 0],
                                      {"allow_asset_removal"})
         IN IF E1.err # "" THEN E1
            ELSE [E1 EXCEPT !.assets =
                     [a \in DOMAIN E1.assets \ aids |-> E1.assets[a]]]

----------------------------------------------------------------------------
(* AccountMove: unlink, write, post, button_draft, _reverse_move_vals *)

\* account.asset.line search([("move_id", "in", ids), ("type", "in", types)])
SearchDeprs(E, ids, types) ==
    {d \in DOMAIN E.deprs : E.deprs[d].move_id \in ids /\ E.deprs[d].type \in types}

\* deprs.write({"move_id": False})
DeprsDetach(E, ds) ==
    [E EXCEPT !.deprs = [d \in DOMAIN E.deprs |->
                            IF d \in ds THEN [E.deprs[d] EXCEPT !.move_id = 0]
                            ELSE E.deprs[d]]]

\* super().unlink() of the entry model: the rows go, their lines cascade, and
\* a many2one still pointing at a deleted entry is set to null
SuperMoveUnlink(E, ids) ==
    [E EXCEPT !.moves = [m \in DOMAIN E.moves \ ids |-> E.moves[m]],
              !.lines = [l \in {k \in DOMAIN E.lines : E.lines[k].move_id \notin ids}
                            |-> E.lines[l]],
              !.deprs = [d \in DOMAIN E.deprs |->
                            IF E.deprs[d].move_id \in ids
                            THEN [E.deprs[d] EXCEPT !.move_id = 0]
                            ELSE E.deprs[d]]]

\* an unlink that detaches the depreciation lines of every entry
MoveUnlinkOpDetachAll(E, ids, ctx) ==
    LET found == SearchDeprs(E, ids, UnlinkDeprTypes)
    IN IF found # {} /\ "unlink_from_asset" \notin ctx
       THEN Raise(E, ErrMoveUnlink)
       ELSE SuperMoveUnlink(DeprsDetach(E, SearchDeprs(E, DOMAIN E.moves, UnlinkDeprTypes)),
                            ids)

\* AccountMove.unlink() on the record set ids
MoveUnlinkOp(E, ids, ctx) ==
    LET found == SearchDeprs(E, ids, UnlinkDeprTypes)
    IN IF found # {} /\ "unlink_from_asset" \notin ctx
       THEN Raise(E, ErrMoveUnlink)
       ELSE SuperMoveUnlink(DeprsDetach(E, found), ids)

\* AccountMove.write(vals) on the record set ids
MoveWriteOp(E, ids, vals) ==
    IF /\ DOMAIN vals \cap FIELDS_AFFECTS_ASSET_MOVE # {}
       /\ SearchDeprs(E, ids, WriteDeprTypes) # {}
    THEN Raise(E, ErrMoveWrite)
    ELSE [E EXCEPT !.moves = [m \in DOMAIN E.moves |->
                                  IF m \in ids THEN Apply(E.moves[m], vals)
                                  ELSE E.moves[m]]]

\* super().post() / super().button_draft(): the posting state of the entries
SuperSetState(E, ids, st) ==
    [E EXCEPT !.moves = [m \in DOMAIN E.moves |->
                            IF m \in ids THEN [E.moves[m] EXCEPT !.state = st]
                            ELSE E.moves[m]]]

\* a depreciation base that is the balance of the line
DepreciationBaseBalance(aml) == aml.debit - aml.credit

\* depreciation_base = aml.debit or -aml.credit
DepreciationBase(aml) == IF aml.debit # 0 THEN aml.debit ELSE -aml.credit

\* asset vals whose code is the name of the line
AssetValsLineCode(move, aml) ==
    [name           |-> aml.name,
     code           |-> aml.name,
     profile_id     |-> aml.asset_profile_id,
     purchase_value |-> DepreciationBase(aml),
     date_start     |-> move.date]

\* the vals post() builds for the asset of line aml of entry move
AssetVals(move, aml) ==
    [name           |-> aml.name,
     code           |-> move.name,
     profile_id     |-> aml.asset_profile_id,
     purchase_value |-> DepreciationBase(aml),
     date_start     |-> move.date]

\* move.line_ids.filtered("asset_profile_id")
ProfileLines(E, m) == {l \in LineIdsOf(E, m) : E.lines[l].asset_profile_id # 0}

\* the body of the inner loop of post(): the asset of one line, and the
\* line's asset_id set to it under allow_asset
PostLine(E, m, l, ctx) ==
    IF E.err # "" THEN E
    ELSE LET E1 == AssetCreateOp(E, AssetVals(E.moves[m], E.lines[l]))
         IN LineWriteOp(E1, {l}, [asset_id |-> E1.asset_seq],
                        ctx \cup {"allow_asset"})

RECURSIVE PostLines(_, _, _, _)
\* for aml in move.line_ids.filtered("asset_profile_id")
PostLines(E, m, seq, ctx) ==
    IF seq = << >> \/ E.err # "" THEN E
    ELSE PostLines(PostLine(E, m, Head(seq), ctx), m, Tail(seq), ctx)

\* move.message_post(body=...): the entry keeps the assets its latest
\* message refers to
MessagePost(E, m) ==
    IF E.err # "" THEN E
    ELSE [E EXCEPT !.moves[m].message =
             {E.lines[l].asset_id : l \in ProfileLines(E, m)} \ {0}]

RECURSIVE PostMoves(_, _, _)
\* for move in self
PostMoves(E, seq, ctx) ==
    IF seq = << >> \/ E.err # "" THEN E
    ELSE LET m  == Head(seq)
             E1 == PostLines(E, m, SortedSeq(ProfileLines(E, m)), ctx)
         IN PostMoves(MessagePost(E1, m), Tail(seq), ctx)

\* AccountMove.post() on the record set ids
PostOp(E, ids, ctx) == PostMoves(SuperSetState(E, ids, "posted"), SortedSeq(ids), ctx)

\* a reset to draft that deletes the assets of every entry of the batch
ButtonDraftOpAllEntries(E, ids) ==
    LET invoices == ids
        linked   == {E.lines[l].asset_id :
                        l \in {k \in DOMAIN E.lines : E.lines[k].move_id \in invoices}}
                    \ {0}
        E1 == IF invoices # {} THEN AssetUnlinkOp(E, linked) ELSE E
    IN IF E1.err # "" THEN E1 ELSE SuperSetState(E1, ids, "draft")

\* AccountMove.button_draft() on the record set ids
ButtonDraftOp(E, ids) ==
    LET invoices == {m \in ids : ~IsSaleDocument(E, m)}
        linked   == {E.lines[l].asset_id :
                        l \in {k \in DOMAIN E.lines : E.lines[k].move_id \in invoices}}
                    \ {0}
        E1 == IF invoices # {} THEN AssetUnlinkOp(E, linked) ELSE E
    IN IF E1.err # "" THEN E1 ELSE SuperSetState(E1, ids, "draft")

\* super()._reverse_move_vals(default_values, cancel): the copy_data of the
\* entry with default_values on top, one (0, 0, vals) command per line with
\* debit and credit swapped
SuperReverseMoveVals(E, m, default_values) ==
    LET ls == SortedSeq(LineIdsOf(E, m))
    IN [type     |-> IF "type" \in DOMAIN default_values
                     THEN default_values["type"] ELSE E.moves[m].type,
        line_ids |-> [i \in 1 .. Len(ls) |->
                         Apply(E.lines[ls[i]],
                               [debit  |-> E.lines[ls[i]].credit,
                                credit |-> E.lines[ls[i]].debit])]]

RECURSIVE ReverseLines(_, _, _)
\* for line_command in move_vals.get("line_ids", []): the asset of the
\* command is deleted and the command loses its profile and its asset
ReverseLines(E, line_ids, i) ==
    IF i > Len(line_ids) \/ E.err # "" THEN [E |-> E, line_ids |-> line_ids]
    ELSE LET line_vals == line_ids[i]
             E1 == AssetUnlinkOp(E, {line_vals.asset_id} \ {0})
         IN ReverseLines(E1,
                         [line_ids EXCEPT ![i] =
                             Apply(line_vals, [asset_profile_id |-> 0, asset_id |-> 0])],
                         i + 1)

\* a reversal that looks at the type of the reversed entry, not at the type
\* of the reversal
ReverseMoveValsOpOriginalType(E, m, default_values) ==
    LET move_vals == SuperReverseMoveVals(E, m, default_values)
    IN IF E.moves[m].type \notin SaleTypes
       THEN LET r == ReverseLines(E, move_vals.line_ids, 1)
            IN [E |-> r.E, move_vals |-> [move_vals EXCEPT !.line_ids = r.line_ids]]
       ELSE [E |-> E, move_vals |-> move_vals]

\* AccountMove._reverse_move_vals(default_values, cancel) on the entry m:
\* the environment afterwards and the move_vals returned
ReverseMoveValsOp(E, m, default_values) ==
    LET move_vals == SuperReverseMoveVals(E, m, default_values)
    IN IF move_vals.type \notin SaleTypes
       THEN LET r == ReverseLines(E, move_vals.line_ids, 1)
            IN [E |-> r.E, move_vals |-> [move_vals EXCEPT !.line_ids = r.line_ids]]
       ELSE [E |-> E, move_vals |-> move_vals]

----------------------------------------------------------------------------
(* The state machine: one action per guard operation *)

\* the tables as the environment an operation starts from
Env ==
    [moves |-> moves, lines |-> lines, assets |-> assets, deprs |-> deprs,
     line_seq |-> line_seq, asset_seq |-> asset_seq, err |-> ""]

\* a transaction that keeps what was written before the error
CommitWritten(E) ==
    /\ moves' = E.moves
    /\ lines' = E.lines
    /\ assets' = E.assets
    /\ deprs' = E.deprs
    /\ line_seq' = E.line_seq
    /\ asset_seq' = E.asset_seq

\* the transaction ends: commit when no error was raised, rollback otherwise
Commit(E) ==
    /\ IF E.err = ""
       THEN /\ moves' = E.moves
            /\ lines' = E.lines
            /\ assets' = E.assets
            /\ deprs' = E.deprs
            /\ line_seq' = E.line_seq
            /\ asset_seq' = E.asset_seq
       ELSE UNCHANGED <<moves, lines, assets, deprs, line_seq, asset_seq>>

\* the call just made: the operation, its record set, vals and context, the
\* error it raised ("" when none) and what it returned
Called(op, ids, vals, ctx, E, out) ==
    last' = [op |-> op, ids |-> ids, vals |-> vals, ctx |-> ctx, err |-> E.err,
             out |-> IF E.err = "" THEN out ELSE << >>]

LineCreate(vals_list, ctx) ==
    LET E == LineCreateOp(Env, vals_list, ctx)
    IN /\ Commit(E)
       /\ Called("line_create",
                 (line_seq + 1) .. (line_seq + Len(vals_list)), vals_list, ctx, E, << >>)

LineWrite(ids, vals, ctx) ==
    LET E == LineWriteOp(Env, ids, vals, ctx)
    IN /\ ids # {}
       /\ ids \subseteq DOMAIN lines
       /\ Commit(E)
       /\ Called("line_write", ids, vals, ctx, E, << >>)

ExpandAssetLine(id, ctx) ==
    LET E == ExpandAssetLineOp(Env, id, ctx)
    IN /\ id \in DOMAIN lines
       /\ Commit(E)
       /\ Called("expand", {id}, << >>, ctx, E, << >>)

MoveUnlink(ids, ctx) ==
    LET E == MoveUnlinkOp(Env, ids, ctx)
    IN /\ ids # {}
       /\ ids \subseteq DOMAIN moves
       /\ Commit(E)
       /\ Called("move_unlink", ids, << >>, ctx, E, << >>)

MoveWrite(ids, vals) ==
    LET E == MoveWriteOp(Env, ids, vals)
    IN /\ ids # {}
       /\ ids \subseteq DOMAIN moves
       /\ Commit(E)
       /\ Called("move_write", ids, vals, {}, E, << >>)

Post(ids, ctx) ==
    LET E == PostOp(Env, ids, ctx)
    IN /\ ids # {}
       /\ ids \subseteq DOMAIN moves
       /\ Commit(E)
       /\ Called("post", ids, << >>, ctx, E, << >>)

ButtonDraft(ids) ==
    LET E == ButtonDraftOp(Env, ids)
    IN /\ ids # {}
       /\ ids \subseteq DOMAIN moves
       /\ Commit(E)
       /\ Called("button_draft", ids, << >>, {}, E, << >>)

ReverseMoveVals(m, default_values) ==
    LET r == ReverseMoveValsOp(Env, m, default_values)
    IN /\ m \in DOMAIN moves
       /\ Commit(r.E)
       /\ Called("reverse_move_vals", {m}, default_values, {}, r.E, r.move_vals)

----------------------------------------------------------------------------
(* Initial states *)

\* an entry as the accounting core creates it: a draft with its number
NewMove(m, type) ==
    [type |-> type, state |-> "draft", name |-> "BILL/" \o ToString(m),
     date |-> 1, journal_id |-> 1, ref |-> 1, message |-> {}]

NoCall ==
    [op |-> "init", ids |-> {}, vals |-> << >>, ctx |-> {}, err |-> "", out |-> << >>]

\* the entries alternate between vendor bills and customer invoices
AlternateTypes == [m \in MoveIds |-> IF m % 2 = 1 THEN "in_invoice" ELSE "out_invoice"]

\* the types a depreciation line of the asset module can have initially
InitDeprTypes(d) == IF d = 1 THEN {"create", "depreciate"} ELSE {"depreciate", "remove"}

\* entries with one plain line each, and depreciation lines of the asset
\* module of every type, attached to any entry or to none
InitEntry ==
    /\ moves = [m \in MoveIds |-> NewMove(m, AlternateTypes[m])]
    /\ lines = [l \in MoveIds |->
                   Apply(LineDefaults, [move_id |-> l, name |-> "Widget", debit |-> 100])]
    /\ line_seq = MaxMoves
    /\ assets = << >>
    /\ asset_seq = 0
    /\ deprs \in {ds \in [DeprIds -> [move_id : {0} \cup MoveIds, type : DeprTypes]] :
                      \A d \in DeprIds : ds[d].type \in InitDeprTypes(d)}
    /\ last = NoCall

\* the (debit, credit) pairs of the lines that exist initially
InitAmounts == {<<100, 0>>, <<0, 100>>, <<100, 40>>}

\* a line as the accounting core stores it, not linked to an asset
InitLine(m, p, amt, name) ==
    Apply(LineDefaults,
          [move_id |-> m, name |-> name, asset_profile_id |-> p,
           debit |-> amt[1], credit |-> amt[2]])

\* draft bills and invoices with two lines, the first on entry 1, each with
\* or without an asset profile and with a debit, a credit or both; no asset
InitPost ==
    /\ moves = [m \in MoveIds |-> NewMove(m, AlternateTypes[m])]
    /\ \E m2 \in MoveIds, p1 \in {0} \cup Profiles, p2 \in {0, 1},
          a1 \in InitAmounts, a2 \in {<<100, 0>>, <<0, 100>>} :
          lines = <<InitLine(1, p1, a1, "Widget"), InitLine(m2, p2, a2, "Gadget")>>
    /\ line_seq = 2
    /\ assets = << >>
    /\ asset_seq = 0
    /\ deprs = [d \in DeprIds |-> [move_id |-> 0, type |-> "depreciate"]]
    /\ last = NoCall

\* an asset of the asset module, created outside the entry guard
InitAsset(a) ==
    [name |-> "Asset " \o ToString(a), code |-> "", profile_id |-> 2,
     purchase_value |-> 100, date_start |-> 1]

\* the quantities 0.5, 1.0, 1.5, ... up to MaxQty
Quantities == 1 .. (MaxQty * QtyScale)

\* the quantities a line with profile p can have between two calls: create
\* and write expand every line whose profile tracks units, so such a line
\* never keeps a quantity above 1.0
InitQtys(p) == IF p # 0 /\ AssetProductItem(p) THEN {QtyOne} ELSE {QtyOne, 2 * QtyOne}

\* bills and invoices with two lines and two assets: the first line on any
\* entry, with any profile, linked to asset 1 or not; the second a line of
\* quantity 2.0 without profile on any entry, linked to asset 2 or not
InitLines ==
    /\ moves = [m \in MoveIds |-> NewMove(m, AlternateTypes[m])]
    /\ \E m1, m2 \in MoveIds, p1 \in {0} \cup Profiles, a1 \in {0, 1}, a2 \in {0, 2} :
          \E q1 \in InitQtys(p1) :
             lines = <<Apply(InitLine(m1, p1, <<100, 0>>, "Widget"),
                             [asset_id |-> a1, quantity |-> q1]),
                       Apply(InitLine(m2, 0, <<0, 100>>, "Gadget"),
                             [asset_id |-> a2, quantity |-> 2 * QtyOne])>>
    /\ line_seq = 2
    /\ assets = [a \in {1, 2} |-> InitAsset(a)]
    /\ asset_seq = 2
    /\ deprs = [d \in DeprIds |-> [move_id |-> 0, type |-> "depreciate"]]
    /\ last = NoCall

\* after construction: draft bills and invoices without lines, no asset, a
\* depreciation line posted through entry 1 and a removal line not posted
Init ==
    /\ moves = [m \in MoveIds |-> NewMove(m, AlternateTypes[m])]
    /\ lines = << >>
    /\ line_seq = 0
    /\ assets = << >>
    /\ asset_seq = 0
    /\ deprs = <<[move_id |-> 1, type |-> "depreciate"],
                 [move_id |-> 0, type |-> "remove"]>>
    /\ last = NoCall

----------------------------------------------------------------------------
(* Specifications *)

\* the change sets the entry guard is called with
MoveValsSet == {[journal_id |-> 2], [date |-> 2], [ref |-> 2]}

\* the record sets a guard is called on: one record, or all of them
Batches(S) == {{x} : x \in S} \cup ({S} \ {{}})

\* the entry guard on entries with depreciation lines: write and unlink
NextEntry ==
    \/ \E ids \in Batches(DOMAIN moves), vals \in MoveValsSet :
          MoveWrite(ids, vals)
    \/ \E ids \in Batches(DOMAIN moves), ctx \in SUBSET {"unlink_from_asset"} :
          MoveUnlink(ids, ctx)

SpecEntry == InitEntry /\ [][NextEntry]_vars

\* the default_values a reversal is built with: none, or a document type
ReversalDefaults == {<< >>, [type |-> "entry"]}

\* posting, resetting and reversing entries
NextPost ==
    \/ \E ids \in Batches(DOMAIN moves) : Post(ids, {}) /\ asset_seq' <= MaxAssets
    \/ \E ids \in Batches(DOMAIN moves) : ButtonDraft(ids)
    \/ \E m \in DOMAIN moves, default_values \in ReversalDefaults :
          ReverseMoveVals(m, default_values)

SpecPost == InitPost /\ [][NextPost]_vars

\* the entries of InitEntry with every depreciation line attached to one
InitUnlink ==
    /\ InitEntry
    /\ \A d \in DeprIds : deprs[d].move_id # 0

\* the entry guard called on entries that all carry a depreciation line
SpecUnlink == InitUnlink /\ [][NextEntry]_vars

\* the permission contexts a line guard is called under
LineContexts == SUBSET {"allow_asset", "allow_asset_removal"}

\* the change sets the line guard is called with: every protected field
\* alone, fields outside the protected ones, and asset_id with another field
LineValsSet ==
    {[credit |-> 50], [debit |-> 50], [account_id |-> 2], [journal_id |-> 2],
     [date |-> 2], [name |-> "Renamed"]}
    \cup {[asset_profile_id |-> p] : p \in {0} \cup Profiles}
    \cup {[asset_id |-> a] : a \in {0} \cup DOMAIN assets}
    \cup {[asset_id |-> a, name |-> "Renamed"] : a \in {0} \cup DOMAIN assets}
    \cup {[quantity |-> q] : q \in Quantities}

\* the line specs create is called with
LineSpecs ==
    {[move_id |-> m, name |-> "Widget", quantity |-> q, asset_profile_id |-> p,
      asset_id |-> a, debit |-> 100] :
        m \in MoveIds, q \in Quantities, p \in {0} \cup Profiles, a \in {0, 1}}
    \cup {[name |-> "Widget", asset_id |-> a] : a \in {0, 1}}

\* no guard was called yet
FirstCall == last = NoCall

\* plain line specs, for a create of two lines
PlainLineSpecs ==
    {v \in LineSpecs : /\ "move_id" \in DOMAIN v
                       /\ v.quantity = QtyOne
                       /\ v.asset_profile_id = 0}

\* one call of the line guard on the lines that exist
NextLines ==
    \/ /\ FirstCall
       /\ \E ids \in Batches(DOMAIN lines), vals \in LineValsSet, ctx \in LineContexts :
             LineWrite(ids, vals, ctx)
    \/ /\ FirstCall
       /\ \E vals \in LineSpecs, ctx \in LineContexts : LineCreate(<<vals>>, ctx)
    \/ /\ FirstCall
       /\ \E vals1, vals2 \in PlainLineSpecs : LineCreate(<<vals1, vals2>>, {})
    \/ /\ FirstCall
       /\ \E id \in DOMAIN lines, ctx \in LineContexts : ExpandAssetLine(id, ctx)

SpecLines == InitLines /\ [][NextLines]_vars

\* the change sets that make a write run the expansion
ExpandVals ==
    {[quantity |-> q] : q \in Quantities}
    \cup {[asset_profile_id |-> p] : p \in Profiles}

\* a create or a write that runs the expansion, then the expansion called
\* again on any line there is
NextExpand ==
    \/ /\ FirstCall
       /\ \E ids \in Batches(DOMAIN lines), vals \in ExpandVals,
             ctx \in SUBSET {"allow_asset"} :
             LineWrite(ids, vals, ctx)
    \/ /\ FirstCall
       /\ \E vals \in LineSpecs : LineCreate(<<vals>>, {"allow_asset"})
    \/ /\ last.op \in {"line_write", "line_create"}
       /\ last.err = ""
       /\ \E id \in DOMAIN lines : ExpandAssetLine(id, last.ctx)

SpecExpand == InitLines /\ [][NextExpand]_vars

\* the line specs of the full state machine: lines of one unit with a
\* profile that tracks units, linked to an asset or not
NextLineSpecs ==
    {[move_id |-> m, name |-> "Widget", asset_profile_id |-> 1, asset_id |-> a,
      debit |-> 100] : m \in DOMAIN moves, a \in {0} \cup DOMAIN assets}

\* the change sets of the full state machine: link, unlink, two units
NextLineVals ==
    {[asset_id |-> a] : a \in {0} \cup DOMAIN assets} \cup {[quantity |-> 2 * QtyOne]}

\* the contexts of a line write in the full state machine
NextLineContexts == {{}, {"allow_asset"}, {"allow_asset", "allow_asset_removal"}}

\* every guard operation, in any order
Next ==
    \/ \E vals \in NextLineSpecs, ctx \in SUBSET {"allow_asset"} :
          LineCreate(<<vals>>, ctx) /\ line_seq' <= MaxLines
    \/ \E id \in DOMAIN lines, vals \in NextLineVals, ctx \in NextLineContexts :
          LineWrite({id}, vals, ctx) /\ line_seq' <= MaxLines
    \/ \E id \in DOMAIN lines : ExpandAssetLine(id, {})
    \/ \E m \in DOMAIN moves, ctx \in SUBSET {"unlink_from_asset"} : MoveUnlink({m}, ctx)
    \/ MoveWrite(DOMAIN moves, [journal_id |-> 2])
    \/ \E m \in DOMAIN moves : Post({m}, {}) /\ asset_seq' <= MaxAssets
    \/ \E m \in DOMAIN moves : ButtonDraft({m})
    \/ \E m \in DOMAIN moves, default_values \in ReversalDefaults :
          ReverseMoveVals(m, default_values)

Spec == Init /\ [][Next]_vars

----------------------------------------------------------------------------
(* Claims on the entry guard *)

TablesUnchanged ==
    UNCHANGED <<moves, lines, assets, deprs, line_seq, asset_seq>>

\* some depreciation line of one of the types references an entry of ids
Attached(ids, types) ==
    \E d \in DOMAIN deprs : deprs[d].move_id \in ids /\ deprs[d].type \in types

\* C1: a write of journal_id or date on a batch with an attached
\* depreciation line of type depreciate fails with the entry-write error and
\* changes nothing; every other write (no journal_id/date in the change set,
\* or no depreciate line attached, lines of type remove included) is not
\* rejected and every entry of the batch gets the written values.
C1_EntryWriteGuard ==
    [][last'.op = "move_write" =>
         LET ids  == last'.ids
             vals == last'.vals
         IN IF /\ DOMAIN vals \cap {"journal_id", "date"} # {}
               /\ Attached(ids, {"depreciate"})
            THEN last'.err = ErrMoveWrite /\ TablesUnchanged
            ELSE /\ last'.err = ""
                 /\ \A m \in ids : \A f \in DOMAIN vals : moves'[m][f] = vals[f]
                 /\ \A m \in DOMAIN moves \ ids : moves'[m] = moves[m]]_vars

\* a batch of two entries, one with a depreciate line, was refused a date
C1_Witness ==
    /\ last.op = "move_write"
    /\ last.err = ErrMoveWrite
    /\ "date" \in DOMAIN last.vals
    /\ Cardinality(last.ids) > 1
    /\ \E m \in last.ids : ~Attached({m}, {"depreciate"})

\* C2: unlink of a batch none of whose entries has an attached depreciate or
\* remove line succeeds and the entries are gone; with such a line attached
\* and no unlink_from_asset in the context it fails with the entry-unlink
\* error and entries, lines and depreciation lines are exactly as before.
C2_EntryUnlinkGuard ==
    [][last'.op = "move_unlink" =>
         LET ids == last'.ids
         IN /\ ~Attached(ids, {"depreciate", "remove"}) =>
                  /\ last'.err = ""
                  /\ DOMAIN moves' = DOMAIN moves \ ids
            /\ (Attached(ids, {"depreciate", "remove"})
                  /\ "unlink_from_asset" \notin last'.ctx) =>
                  /\ last'.err = ErrMoveUnlink
                  /\ TablesUnchanged]_vars

\* a batch whose only attached line is of type remove was refused
C2_Witness ==
    /\ last.op = "move_unlink"
    /\ last.err = ErrMoveUnlink
    /\ Cardinality(last.ids) > 1
    /\ Attached(last.ids, {"remove"})
    /\ ~Attached(last.ids, {"depreciate"})
    /\ last.ids \subseteq DOMAIN moves

----------------------------------------------------------------------------
(* Claims on posting *)

\* the lines of the entries ids that carry an asset profile, before the call
ProfileLinesOf(ids) ==
    {l \in DOMAIN lines : lines[l].move_id \in ids /\ lines[l].asset_profile_id # 0}

\* the assets the call created
NewAssets == DOMAIN assets' \ DOMAIN assets

\* C3: after a post that succeeds, every line of a posted entry that carries
\* an asset profile is linked to an asset of its own that the post created,
\* with the line's profile, the entry's date as start date and the entry's
\* name as code; the other lines keep their asset_id; and as many assets
\* were created as there are profile-carrying lines.
C3_PostCreatesAssets ==
    [][(last'.op = "post" /\ last'.err = "") =>
         LET pl == ProfileLinesOf(last'.ids)
         IN /\ Cardinality(NewAssets) = Cardinality(pl)
            /\ \A l \in pl :
                  LET a == lines'[l].asset_id
                      m == lines[l].move_id
                  IN /\ a \in NewAssets
                     /\ assets'[a].profile_id = lines[l].asset_profile_id
                     /\ assets'[a].date_start = moves[m].date
                     /\ assets'[a].code = moves[m].name
                     /\ \A k \in pl \ {l} : lines'[k].asset_id # a
            /\ \A l \in DOMAIN lines \ pl :
                  l \in DOMAIN lines' /\ lines'[l].asset_id = lines[l].asset_id]_vars

\* a posted batch with a line that got an asset and a line without profile
\* that got none
C3_Witness ==
    /\ last.op = "post"
    /\ last.err = ""
    /\ \E l1, l2 \in DOMAIN lines :
          /\ lines[l1].move_id \in last.ids
          /\ lines[l2].move_id \in last.ids
          /\ lines[l1].asset_profile_id # 0
          /\ lines[l1].asset_id \in DOMAIN assets
          /\ lines[l2].asset_profile_id = 0
          /\ lines[l2].asset_id = 0

\* C4 as stated: the asset of a credit-only line has the positive amount c
\* as purchase value, the asset of a line with debit d > 0 has d, and the
\* purchase value of an asset created by post is never negative.
C4_AsStated ==
    [][(last'.op = "post" /\ last'.err = "") =>
         \A l \in ProfileLinesOf(last'.ids) :
            LET pv == assets'[lines'[l].asset_id].purchase_value
            IN /\ (lines[l].debit = 0 /\ lines[l].credit > 0) => pv = lines[l].credit
               /\ lines[l].debit > 0 => pv = lines[l].debit
               /\ pv >= 0]_vars

\* C4 amended: the asset of a credit-only line (debit = 0, credit = c > 0)
\* has the negated credit -c as purchase value, the asset of a line with
\* debit d > 0 has d, and the purchase value is negative exactly for the
\* credit-only lines.
C4_PurchaseValue ==
    [][(last'.op = "post" /\ last'.err = "") =>
         \A l \in ProfileLinesOf(last'.ids) :
            LET pv == assets'[lines'[l].asset_id].purchase_value
            IN /\ (lines[l].debit = 0 /\ lines[l].credit > 0) => pv = 0 - lines[l].credit
               /\ lines[l].debit > 0 => pv = lines[l].debit
               /\ pv < 0 <=> (lines[l].debit = 0 /\ lines[l].credit > 0)]_vars

\* a posted credit-only line whose asset has a negative purchase value, and
\* a posted line with a debit and a credit
C4_Witness ==
    /\ last.op = "post"
    /\ last.err = ""
    /\ \E l \in DOMAIN lines :
          /\ lines[l].move_id \in last.ids
          /\ lines[l].debit = 0
          /\ lines[l].credit > 0
          /\ lines[l].asset_id \in DOMAIN assets
          /\ assets[lines[l].asset_id].purchase_value < 0
    /\ \E l \in DOMAIN lines :
          /\ lines[l].move_id \in last.ids
          /\ lines[l].debit > 0
          /\ lines[l].credit > 0
          /\ lines[l].asset_id \in DOMAIN assets

\* C5: a post creates assets for, and sets asset_id on, the profile-carrying
\* lines of the entries that are not sale documents only: the
\* profile-carrying lines of a posted sale document keep an empty asset_id
\* and no asset is created for them.
C5_PostOnlyNonSale ==
    [][(last'.op = "post" /\ last'.err = "") =>
         LET pl   == ProfileLinesOf(last'.ids)
             sale == {l \in pl : moves[lines[l].move_id].type \in {"out_invoice", "out_refund"}}
         IN /\ \A l \in sale : lines[l].asset_id = 0 => lines'[l].asset_id = 0
            /\ Cardinality(NewAssets) = Cardinality(pl \ sale)]_vars

----------------------------------------------------------------------------
(* Claims on the line guard *)

\* the entry m exists and is no customer invoice or refund
NonSale(m) == m \in DOMAIN moves /\ moves[m].type \notin {"out_invoice", "out_refund"}

PermissionErrors == {ErrMoveUnlink, ErrMoveWrite, ErrLineLinked, ErrLineLink}

\* C7: a create with a spec of a non-sale entry that has a non-empty
\* asset_id, and a write of a non-empty asset_id on a record set with a
\* non-sale line, fail with a PermissionError whenever allow_asset is not
\* in the context, whatever the other fields and flags; no line is created
\* or changed.
C7_LinkNeedsAllowAsset ==
    [][/\ (/\ last'.op = "line_create"
           /\ "allow_asset" \notin last'.ctx
           /\ \E i \in DOMAIN last'.vals :
                 /\ "move_id" \in DOMAIN last'.vals[i]
                 /\ NonSale(last'.vals[i].move_id)
                 /\ "asset_id" \in DOMAIN last'.vals[i]
                 /\ last'.vals[i].asset_id # 0)
          => (last'.err = ErrLineLink /\ TablesUnchanged)
       /\ (/\ last'.op = "line_write"
           /\ "allow_asset" \notin last'.ctx
           /\ "asset_id" \in DOMAIN last'.vals
           /\ last'.vals.asset_id # 0
           /\ \E l \in last'.ids : NonSale(lines[l].move_id))
          => (last'.err \in {ErrLineLink, ErrLineLinked} /\ TablesUnchanged)]_vars

\* under allow_asset_removal alone, a write of an asset and a name on a
\* batch with an unlinked line of a bill was refused as a link
C7_Witness ==
    /\ last.op = "line_write"
    /\ last.err = ErrLineLink
    /\ last.ctx = {"allow_asset_removal"}
    /\ DOMAIN last.vals = {"asset_id", "name"}
    /\ Cardinality(last.ids) > 1
    /\ \E l \in last.ids : NonSale(lines[l].move_id) /\ lines[l].asset_id = 0

\* C8: a write is rejected by the linked-line check, and changes nothing,
\* exactly when its change set meets the protected fields, a non-sale line
\* of the record set has a non-empty asset_id, and it is not a write of
\* asset_id alone under allow_asset_removal; so a change set disjoint from
\* the protected fields is never rejected by this check.
C8_ProtectedFieldsFrozen ==
    [][last'.op = "line_write" =>
         LET vals      == last'.vals
             protected == {"credit", "debit", "account_id", "journal_id", "date",
                           "asset_profile_id", "asset_id"}
             linked    == \E l \in last'.ids :
                             NonSale(lines[l].move_id) /\ lines[l].asset_id # 0
             removal   == "allow_asset_removal" \in last'.ctx
                          /\ DOMAIN vals = {"asset_id"}
         IN /\ (DOMAIN vals \cap protected # {} /\ linked /\ ~removal)
                  <=> last'.err = ErrLineLinked
            /\ last'.err = ErrLineLinked => TablesUnchanged]_vars

\* a write of the date alone on a batch of a linked line of a bill and
\* another line was rejected
C8_Witness ==
    /\ last.op = "line_write"
    /\ last.err = ErrLineLinked
    /\ DOMAIN last.vals = {"date"}
    /\ Cardinality(last.ids) > 1
    /\ \E l \in last.ids : NonSale(lines[l].move_id) /\ lines[l].asset_id # 0
    /\ \E l \in last.ids : lines[l].asset_id = 0

\* the lines a call runs the expansion on, with the columns they have when
\* it runs: the lines a create made, the lines of a write of quantity or
\* asset_profile_id after the write, the line of a direct call
ExpansionTargets ==
    IF last'.op = "line_create"
    THEN [t \in last'.ids |-> Apply(LineDefaults, last'.vals[t - line_seq])]
    ELSE IF last'.op = "line_write"
    THEN IF DOMAIN last'.vals \cap {"quantity", "asset_profile_id"} # {}
         THEN [t \in last'.ids |-> Apply(lines[t], last'.vals)]
         ELSE << >>
    ELSE IF last'.op = "expand" THEN [t \in last'.ids |-> lines[t]]
    ELSE << >>

\* the lines the call made besides the ones a create was asked for
Copies ==
    (DOMAIN lines' \ DOMAIN lines) \
        (IF last'.op = "line_create" THEN last'.ids ELSE {})

\* the profile of the line tracks every unit and its quantity is above 1.0
MustExpand(r) == r.asset_profile_id = 1 /\ r.quantity > QtyScale

\* C9: when a create, or a write of quantity or asset_profile_id, that
\* completes runs the expansion on a line named N whose profile tracks
\* units and whose quantity is an integer n > 1, the line is named "N 1",
\* n - 1 copies exist in its entry named "N 2" .. "N n", each index once and
\* no other, and the line and its copies have quantity 1.
C9_PerUnitExpansion ==
    [][last'.err = "" =>
         \A t \in DOMAIN ExpansionTargets :
            LET r == ExpansionTargets[t]
                n == r.quantity \div QtyScale
                mine == {k \in Copies :
                            /\ lines'[k].move_id = r.move_id
                            /\ \E i \in 1 .. (n + 1) :
                                  lines'[k].name = Format(r.name, i)}
            IN (MustExpand(r) /\ r.quantity % QtyScale = 0) =>
                  /\ lines'[t].name = Format(r.name, 1)
                  /\ lines'[t].quantity = QtyScale
                  /\ Cardinality(mine) = n - 1
                  /\ \A i \in 2 .. n : \E k \in mine : lines'[k].name = Format(r.name, i)
                  /\ \A k \in mine : lines'[k].quantity = QtyScale]_vars

\* a write of quantity 3 on a line named Widget left Widget 1, 2 and 3
C9_Witness ==
    /\ last.op = "line_write"
    /\ last.err = ""
    /\ DOMAIN last.vals = {"quantity"}
    /\ last.vals.quantity = 3 * QtyScale
    /\ \A i \in 1 .. 3 :
          \E k \in DOMAIN lines :
             lines[k].name = Format("Widget", i) /\ lines[k].quantity = QtyScale
    /\ Cardinality(DOMAIN lines) = 4

\* C10: the expansion of a line whose quantity is at most 1, or that has no
\* profile, or whose profile does not track units, makes no copy and leaves
\* the line with the name and the quantity it had; when no line of the call
\* is outside these cases, the call makes no copy at all and the lines it
\* was not called on are unchanged.
C10_ExpandNoOp ==
    [][last'.err = "" =>
         LET tr == ExpansionTargets
             noop(r) == \/ r.quantity <= QtyScale
                        \/ r.asset_profile_id = 0
                        \/ r.asset_profile_id = 2
         IN /\ \A t \in DOMAIN tr :
                  noop(tr[t]) => /\ lines'[t].name = tr[t].name
                                 /\ lines'[t].quantity = tr[t].quantity
                                 /\ lines'[t] = tr[t]
            /\ (last'.op \in {"line_create", "line_write", "expand"}
                  /\ \A t \in DOMAIN tr : noop(tr[t])) =>
                  /\ Copies = {}
                  /\ \A l \in DOMAIN lines \ last'.ids : lines'[l] = lines[l]
                  /\ last'.op = "expand" => lines' = lines]_vars

\* a profile that does not track units was written on a batch of lines of
\* quantity 2: still two lines
C10_Witness ==
    /\ last.op = "line_write"
    /\ last.err = ""
    /\ last.vals = [asset_profile_id |-> 2]
    /\ Cardinality(last.ids) > 1
    /\ \A l \in last.ids : lines[l].quantity = 2 * QtyScale
    /\ DOMAIN lines = last.ids

----------------------------------------------------------------------------
(* Claims on the lifecycle of asset_id *)

\* C6: in every sequence of guard operations under any combination of context
\* flags, the asset_id of a line of a non-sale entry changes only from empty
\* to an asset or from an asset to empty: no call takes it from one asset
\* directly to a different asset.
C6_AssetIdLifecycle ==
    [][\A l \in DOMAIN lines \cap DOMAIN lines' :
          (NonSale(lines[l].move_id) /\ lines'[l].asset_id # lines[l].asset_id)
              => (lines[l].asset_id = 0 \/ lines'[l].asset_id = 0)]_vars

----------------------------------------------------------------------------
(* Claims on reversal and reset to draft *)

\* the lines of entry m before the call, in the order of the reversal
LinesOf(m) == SortedSeq({l \in DOMAIN lines : lines[l].move_id = m})

\* the entry a call on a single entry was made on
TheMove == CHOOSE m \in last'.ids : TRUE

\* C11: _reverse_move_vals completes; when the type of the reversal is not
\* a sale invoice or refund, the asset of every reversed line is deleted and
\* every line of the reversal has an empty asset_profile_id and an empty
\* asset_id; when it is a sale invoice or refund, no asset is deleted and
\* the lines of the reversal keep the profile and the asset of the lines
\* they reverse.
C11_Reversal ==
    [][last'.op = "reverse_move_vals" =>
         LET ls == LinesOf(TheMove)
             mv == last'.out
         IN /\ last'.err = ""
            /\ Len(mv.line_ids) = Len(ls)
            /\ IF mv.type \notin SaleTypes
               THEN /\ \A i \in 1 .. Len(ls) :
                          /\ lines[ls[i]].asset_id \notin DOMAIN assets'
                          /\ mv.line_ids[i].asset_profile_id = 0
                          /\ mv.line_ids[i].asset_id = 0
               ELSE /\ assets' = assets
                    /\ \A i \in 1 .. Len(ls) :
                          /\ mv.line_ids[i].asset_profile_id = lines[ls[i]].asset_profile_id
                          /\ mv.line_ids[i].asset_id = lines[ls[i]].asset_id]_vars

\* a reversal into a non-sale type of a posted entry whose assets, the ones
\* its posting message names, are all gone
C11_Witness ==
    /\ last.op = "reverse_move_vals"
    /\ last.err = ""
    /\ last.out.type \notin SaleTypes
    /\ Len(last.out.line_ids) > 0
    /\ \E m \in last.ids :
          /\ m \in DOMAIN moves
          /\ moves[m].state = "posted"
          /\ moves[m].message # {}
          /\ moves[m].message \cap DOMAIN assets = {}

\* the assets the lines of the non-sale entries among ids refer to, before
\* the call
AssetsOfNonSale(ids) ==
    {lines[l].asset_id : l \in {k \in DOMAIN lines :
                                   lines[k].move_id \in ids /\ NonSale(lines[k].move_id)}}
    \ {0}

\* C12: button_draft completes and deletes exactly the assets that a line
\* of a non-sale entry of the batch refers to: each of them is gone, and an
\* asset referred to only by lines of sale documents or of entries outside
\* the batch is kept.
C12_ButtonDraftDeletes ==
    [][last'.op = "button_draft" =>
         /\ last'.err = ""
         /\ AssetsOfNonSale(last'.ids) \cap DOMAIN assets' = {}
         /\ \A a \in DOMAIN assets \ AssetsOfNonSale(last'.ids) :
               a \in DOMAIN assets' /\ assets'[a] = assets[a]]_vars

\* a batch reset to draft with a bill whose posting-time asset is gone and
\* an invoice whose line still has its asset
C12_Witness ==
    /\ last.op = "button_draft"
    /\ last.err = ""
    /\ \E m \in last.ids :
          /\ moves[m].type \notin SaleTypes
          /\ \E a \in moves[m].message : a \notin DOMAIN assets
    /\ \E l \in DOMAIN lines :
          /\ lines[l].move_id \in last.ids
          /\ moves[lines[l].move_id].type \in SaleTypes
          /\ lines[l].asset_id \in DOMAIN assets

----------------------------------------------------------------------------
(* Claims on errors *)

----------------------------------------------------------------------------
(* Claims on unlink under unlink_from_asset *)

\* C14: an unlink under the unlink_from_asset context completes: every
\* depreciation line of type depreciate or remove that referenced an entry
\* of the batch has an empty move_id, the entries of the batch are deleted,
\* no depreciation line of these types references a deleted entry, and the
\* depreciation lines that referenced an entry outside the batch or none
\* are unchanged.
C14_UnlinkDetaches ==
    [][(last'.op = "move_unlink" /\ "unlink_from_asset" \in last'.ctx) =>
         /\ last'.err = ""
         /\ DOMAIN moves' = DOMAIN moves \ last'.ids
         /\ DOMAIN deprs' = DOMAIN deprs
         /\ \A d \in DOMAIN deprs :
               /\ (deprs[d].move_id \in last'.ids /\ deprs[d].type \in {"depreciate", "remove"})
                     => deprs'[d] = [deprs[d] EXCEPT !.move_id = 0]
               /\ deprs[d].move_id \notin last'.ids => deprs'[d] = deprs[d]
               /\ deprs'[d].type \in {"depreciate", "remove"}
                     => deprs'[d].move_id \in {0} \cup DOMAIN moves']_vars

\* an unlink under unlink_from_asset that detached a depreciation line of
\* type depreciate or remove (every line was attached initially) and left
\* one attached to an entry outside the batch
C14_Witness ==
    /\ last.op = "move_unlink"
    /\ "unlink_from_asset" \in last.ctx
    /\ last.err = ""
    /\ \E d \in DOMAIN deprs :
          deprs[d].type \in {"depreciate", "remove"} /\ deprs[d].move_id = 0
    /\ \E d \in DOMAIN deprs : deprs[d].move_id \in DOMAIN moves

----------------------------------------------------------------------------
(* Claims on the quantities and the lines of an expansion *)

RECURSIVE SumQuantity(_, _)
\* the sum of the quantities the lines S have in the table tbl
SumQuantity(tbl, S) ==
    IF S = {} THEN 0
    ELSE LET k == CHOOSE x \in S : TRUE
         IN tbl[k].quantity + SumQuantity(tbl, S \ {k})

\* the copies the expansion of the line r made: the new lines of its entry
\* named after it
CopiesOf(r) ==
    {k \in Copies : /\ lines'[k].move_id = r.move_id
                    /\ \E i \in 1 .. (MaxQty + 1) : lines'[k].name = Format(r.name, i)}

\* C15: when a call that completes runs the expansion on a line whose
\* profile tracks units and whose quantity q is above 1, a non-integer q
\* such as 1.5 or 2.5 included, the quantities of the line and of its copies
\* sum to q.
C15_ExpandConservesQuantity ==
    [][last'.err = "" =>
         \A t \in DOMAIN ExpansionTargets :
            LET r == ExpansionTargets[t]
            IN MustExpand(r) =>
                  SumQuantity(lines', {t} \cup CopiesOf(r)) = r.quantity]_vars

C17_AssetOneLine ==
    [][last'.err = "" =>
         \A k \in Copies :
            lines'[k].asset_id # 0 =>
               \A l \in DOMAIN lines' \ {k} : lines'[l].asset_id # lines'[k].asset_id]_vars

RECURSIVE SumUnits(_, _)
\* the copies the expansions of the lines S of the table tbl make: for a
\* line the expansion applies to, one per unit of its quantity but the first
SumUnits(tbl, S) ==
    IF S = {} THEN 0
    ELSE LET t == CHOOSE x \in S : TRUE
         IN (IF MustExpand(tbl[t]) THEN IntOf(tbl[t].quantity) - 1 ELSE 0)
            + SumUnits(tbl, S \ {t})

\* C18: a create or a write that completes ends with one copy per further
\* unit of the lines it expands and no line more, the nested calls creating
\* none; the lines it expands are named "N 1" and the copies "N 2" .. "N n"
\* (no name "N 1 1"); and the expansion run again on any line is a call that
\* completes, creates no line and changes none.
C18_ExpansionIdempotent ==
    [][/\ (last'.op \in {"line_create", "line_write"} /\ last'.err = "") =>
             /\ Cardinality(Copies) = SumUnits(ExpansionTargets, DOMAIN ExpansionTargets)
             /\ \A t \in DOMAIN ExpansionTargets :
                   MustExpand(ExpansionTargets[t]) =>
                      lines'[t].name = Format(ExpansionTargets[t].name, 1)
             /\ \A k \in Copies :
                   \E t \in DOMAIN ExpansionTargets :
                      \E i \in 2 .. IntOf(ExpansionTargets[t].quantity) :
                         lines'[k].name = Format(ExpansionTargets[t].name, i)
       /\ last'.op = "expand" =>
             /\ last'.err = ""
             /\ lines' = lines
             /\ line_seq' = line_seq]_vars

\* the expansion was run again on a copy an expansion had made
C18_Witness ==
    /\ last.op = "expand"
    /\ last.err = ""
    /\ \E id \in last.ids :
          /\ id > 2
          /\ lines[id].quantity = QtyOne
          /\ \E i \in 2 .. MaxQty :
                lines[id].name \in {Format("Widget", i), Format("Gadget", i)}

====
